---- MODULE Spec2Model ----
(***************************************************************************)
(* Model of vocode/streaming/utils/goodbye_model.py (class GoodbyeModel).  *)
(*                                                                         *)
(* Classifier instances share one keyed store (RedisConfigManager) and one *)
(* file system.  Tasks are asyncio callers; a task is suspended at every   *)
(* await on the provider or on the store, and other tasks run in between.  *)
(*                                                                         *)
(* Numbers: vector components are in hundredths, dot products in           *)
(* ten-thousandths, so the similarity 0.9 is 9000.                         *)
(***************************************************************************)
EXTENDS Integers, Sequences, FiniteSets, TLC

\* ------------------------------------------------------------ bounds ----
\* number of concurrently running callers
NumTasks == 2
\* longest reference phrase list an instance is constructed with
MaxPhrases == 2
\* length of an embedding vector (EMBEDDING_SIZE is 1536 in the source)
EMBEDDING_SIZE == 3
\* number of calls the callers make in one run
MaxCalls == 3

Tasks == 1..NumTasks
\* the GoodbyeModel instances of a run: A is constructed with a store
\* handle and the first phrase list, B with any configuration
Insts == {"A", "B"}

\* ------------------------------------------------------- program data ---
\* SIMILARITY_THRESHOLD = 0.9, in ten-thousandths
SIMILARITY_THRESHOLD == 9000

\* text is a sequence of one-character strings
BYE == <<"b", "y", "e">>
SEE == <<"s", "e", "e">>
TTYL == <<"t", "t", "y", "l">>

\* the pool the reference phrase lists are drawn from (GOODBYE_PHRASES)
GOODBYE_PHRASES == <<BYE, SEE, TTYL>>

Reverse(s) == [i \in 1..Len(s) |-> s[Len(s) + 1 - i]]

\* the goodbye_phrases argument of the constructor: the first MaxPhrases
\* phrases of the pool, or a shorter list in another order
FirstPhrases == SubSeq(GOODBYE_PHRASES, 1, MaxPhrases)
OtherPhrases == SubSeq(Reverse(GOODBYE_PHRASES), 1, MaxPhrases - 1)
PhraseSets == {FirstPhrases, OtherPhrases}

\* the texts handed to is_goodbye
Texts ==
    { <<"x", "b", "Y", "E">>,
      <<" ", "L", "8", "r", " ">>,
      <<"W", "h", "a", "t", " ">> }

\* str.lower() on one character
LowerChar(c) ==
    CASE c = "B" -> "b"
      [] c = "Y" -> "y"
      [] c = "E" -> "e"
      [] c = "L" -> "l"
      [] c = "W" -> "w"
      [] OTHER -> c

\* str.lower()
Lower(text) == [i \in 1..Len(text) |-> LowerChar(text[i])]

IsSpace(c) == c = " "

\* str.strip(): drop the leading and the trailing whitespace
RECURSIVE LStrip(_)
LStrip(text) ==
    IF text # <<>> /\ IsSpace(Head(text)) THEN LStrip(Tail(text)) ELSE text

RECURSIVE RStrip(_)
RStrip(text) ==
    IF text # <<>> /\ IsSpace(text[Len(text)])
    THEN RStrip(SubSeq(text, 1, Len(text) - 1))
    ELSE text

Strip(text) == RStrip(LStrip(text))

\* the `in` operator on strings: sub occurs in text
Contains(text, sub) ==
    \E i \in 0..(Len(text) - Len(sub)) : SubSeq(text, i + 1, i + Len(sub)) = sub

\* line 83, a mutant: the keyword test without lower()
FastPathCaseSensitive(text) == Contains(text, BYE)

\* line 83: "bye" in text.lower()
FastPath(text) == Contains(Lower(text), BYE)

\* line 85: text.strip().lower()
Normalize(text) == Lower(Strip(text))

\* a vector of EMBEDDING_SIZE components
Vec(a, b, c) ==
    [d \in 1..EMBEDDING_SIZE |->
        CASE d = 1 -> a [] d = 2 -> b [] d = 3 -> c [] OTHER -> 0]

\* the embedding service: a deterministic function of the text it is sent
Embed(text) ==
    CASE text = BYE -> Vec(100, 0, 0)
      [] text = SEE -> Vec(0, 100, 0)
      [] text = TTYL -> Vec(0, 0, 100)
      [] text = <<"l", "8", "r">> -> Vec(0, 95, 31)
      [] text = <<"e", "d", "g", "e">> -> Vec(0, 90, 44)
      [] text = <<"w", "h", "a", "t">> -> Vec(20, 20, 96)
      [] OTHER -> Vec(57, 57, 57)

RECURSIVE DotUpTo(_, _, _)
DotUpTo(u, v, d) == IF d = 0 THEN 0 ELSE u[d] * v[d] + DotUpTo(u, v, d - 1)

\* dot product of two vectors
Dot(u, v) == DotUpTo(u, v, EMBEDDING_SIZE)

\* line 86: embedding @ matrix, one score per column
MatMul(embedding, matrix) == [i \in 1..Len(matrix) |-> Dot(embedding, matrix[i])]

RECURSIVE MaxUpTo(_, _)
MaxUpTo(s, n) ==
    IF n = 1 THEN s[1]
    ELSE LET m == MaxUpTo(s, n - 1) IN IF s[n] > m THEN s[n] ELSE m

\* np.max of a non-empty score vector
NpMax(s) == MaxUpTo(s, Len(s))


\* ------------------------------------------------------------- values ---
\* Python values, tagged with their type
NoneVal == [kind |-> "None"]
Bool(b) == [kind |-> "bool", val |-> b]
\* an np.ndarray of shape (EMBEDDING_SIZE, Len(cols)), held column by column
NdArray(cols) == [kind |-> "ndarray", cols |-> cols]
\* a coroutine object that was created by calling an async method and that
\* nobody has awaited: its body has not run
Coroutine(fn, key, path) == [kind |-> "coroutine", fn |-> fn, key |-> key, path |-> path]

\* a column of np.empty(): not yet assigned
Uninit == <<>>

\* line 76: np.empty((size, len(self.goodbye_phrases)))
NpEmpty(n) == [i \in 1..n |-> Uninit]

\* line 78, a mutant: the columns are filled from the right
SetColumnReversed(embeddings, i, v) == [embeddings EXCEPT ![Len(embeddings) + 1 - i] = v]

\* line 78: embeddings[:, i] = v
SetColumn(embeddings, i, v) == [embeddings EXCEPT ![i] = v]

\* line 77, a mutant: the loop stops one phrase early
HasNextOffByOne(i, n) == i < n - 1

\* line 77: the for loop has a phrase after phrase i of n
HasNext(i, n) == i < n

\* bool(x) as `if x:` evaluates it; an ndarray of more than one element
\* has no truth value and raises ValueError
Truth(v) ==
    CASE v.kind = "None" -> "False"
      [] v.kind = "ndarray" ->
            LET size == EMBEDDING_SIZE * Len(v.cols) IN
            IF size = 0 THEN "False"
            ELSE IF size = 1 THEN (IF v.cols[1][1] # 0 THEN "True" ELSE "False")
            ELSE "ValueError"
      [] OTHER -> "True"

\* line 82, a mutant: the assertion is compiled away
AssertSkipped(ge) == TRUE

\* line 82: self.goodbye_embeddings is not None
AssertInitialized(ge) == ge.kind # "None"

\* ------------------------------------------------------ keys and paths --
\* the cache keys callers pass; "" is the empty key
Keys == {"default", "k2", ""}

\* a path is a sequence of name parts; the last part is the extension
\* line 30-32: the default embeddings_cache_path
embeddings_cache_path == <<"goodbye_embeddings">>

\* line 47: f"{self.embeddings_cache_path}/goodbye_embeddings.npy"
InitPath == embeddings_cache_path \o <<"/goodbye_embeddings", ".npy">>

\* the paths callers pass to load_or_create_embeddings and _from_path
CallPaths == {InitPath}

\* np.save appends ".npy" to a file name that does not end with it
NpSaveTarget(path) ==
    IF path # <<>> /\ path[Len(path)] = ".npy" THEN path ELSE Append(path, ".npy")

Paths == CallPaths \cup {NpSaveTarget(p) : p \in CallPaths}

\* ------------------------------------------------------------- state ----
VARIABLES
    goodbye_phrases,     \* [Insts -> phrase list]: self.goodbye_phrases
    config_manager,      \* [Insts -> BOOLEAN]: a store handle is configured
    goodbye_embeddings,  \* [Insts -> value]: self.goodbye_embeddings
    store,               \* [Keys -> value]: the keyed store behind config_manager
    files,               \* [Paths -> value]: the file system
    store_src,           \* ghost: the phrase list store[k] was built from
    files_src,           \* ghost: the phrase list files[p] was built from
    initialized,         \* ghost: [Insts -> BOOLEAN]: an initialize_embeddings has completed
    task,                \* [Tasks -> record]: the callers
    ncalls               \* the number of calls made so far

vars == <<goodbye_phrases, config_manager, goodbye_embeddings, store, files,
          store_src, files_src, initialized, task, ncalls>>

config == <<goodbye_phrases, config_manager>>

\* one event of a call's trace
Event(ev, key, path, text) == [ev |-> ev, key |-> key, path |-> path, text |-> text]

IdleTask ==
    [pc |-> "idle", op |-> "none", inst |-> "A", text |-> <<>>, key |-> "",
     path |-> <<>>, embeddings |-> <<>>, i |-> 0, trace |-> <<>>,
     outcome |-> "return", result |-> NoneVal,
     was_init |-> FALSE, had_entry |-> FALSE, origin |-> <<>>]

\* no call has ended with its result not yet taken by its caller
Quiet == \A u \in Tasks : task[u].pc # "done"

\* task t is free to make a call
CanCall(t) ==
    /\ Quiet
    /\ task[t].pc = "idle"
    /\ ncalls < MaxCalls
    /\ ncalls' = ncalls + 1

\* a call begins: the frame of a new call on instance inst
Frame(op, inst) == [IdleTask EXCEPT !.pc = "run", !.op = op, !.inst = inst]

\* lines 28-43: the constructor; the store and the file system start empty
Init ==
    /\ goodbye_phrases \in [Insts -> PhraseSets]
    /\ goodbye_phrases["A"] = FirstPhrases
    /\ config_manager \in [Insts -> BOOLEAN]
    /\ config_manager["A"]
    /\ goodbye_embeddings = [n \in Insts |-> NoneVal]
    /\ store = [k \in Keys |-> NoneVal]
    /\ files = [p \in Paths |-> NoneVal]
    /\ store_src = [k \in Keys |-> <<>>]
    /\ files_src = [p \in Paths |-> <<>>]
    /\ initialized = [n \in Insts |-> FALSE]
    /\ task = [t \in Tasks |-> IdleTask]
    /\ ncalls = 0


\* ----------------------------------------------------------- helpers ----
\* the call of task t ends with this outcome and this result
Finish(f, outcome, result) == [f EXCEPT !.pc = "done", !.outcome = outcome, !.result = result]

Log(f, e) == [f EXCEPT !.trace = Append(@, e)]

\* the texts a call has sent to the provider, in order
Calls(f) == SelectSeq(f.trace, LAMBDA e : e.ev = "embed")

\* line 51, a mutant: the key is not looked at
UseStoreIgnoresKey(inst, key) == config_manager[inst]

\* line 51: self.config_manager and key
UseStore(inst, key) == config_manager[inst] /\ key # ""

\* lines 50-53, a mutant: without a store handle nothing is resolved and
\* None is returned
LoadOrCreateNoneWithoutStore(inst, path, key) ==
    IF UseStore(inst, key)
    THEN Coroutine("_from_redis", key, <<>>)
    ELSE NoneVal

\* lines 50-53: load_or_create_embeddings calls the flow but does not await
\* it, so what it returns is the flow's coroutine object
load_or_create_embeddings(inst, path, key) ==
    IF UseStore(inst, key)
    THEN Coroutine("_from_redis", key, <<>>)
    ELSE Coroutine("_from_path", "", path)

\* the store's get: the matrix kept under the key, None when there is none
get_goodbye_embeddings(key) == store[key]

\* the store's put: the matrix is kept under the key
save_goodbye_embeddings(key, embeddings) == [store EXCEPT ![key] = embeddings]

\* lines 74-78, a mutant: create_embeddings sends every phrase to the
\* provider at once and then takes the answers
StartBuildAllAtOnce(f) ==
    LET phrases == goodbye_phrases[f.inst]
        n == Len(phrases)
    IN [f EXCEPT !.pc = "build", !.embeddings = NpEmpty(n), !.i = 1,
                 !.trace = @ \o [j \in 1..n |-> Event("embed", "", <<>>, phrases[j])]]

\* lines 74-78: create_embeddings starts; the first phrase is sent
StartBuild(f) ==
    LET n == Len(goodbye_phrases[f.inst]) IN
    [Log(f, Event("embed", "", <<>>, goodbye_phrases[f.inst][1]))
        EXCEPT !.pc = "build", !.embeddings = NpEmpty(n), !.i = 1]

\* ------------------------------------------------------------- calls ----
\* lines 45-48: initialize_embeddings
initialize_embeddings(t, inst) ==
    /\ CanCall(t)
    /\ goodbye_embeddings' =
          [goodbye_embeddings EXCEPT ![inst] = load_or_create_embeddings(inst, InitPath, "default")]
    /\ task' = [task EXCEPT ![t] =
          Finish([Frame("initialize_embeddings", inst) EXCEPT
                     !.path = InitPath, !.key = "default",
                     !.was_init = initialized[inst],
                     !.had_entry = IF UseStore(inst, "default")
                                   THEN store["default"].kind # "None"
                                   ELSE files[InitPath].kind # "None"],
                 "return", NoneVal)]
    /\ initialized' = [initialized EXCEPT ![inst] = TRUE]
    /\ UNCHANGED <<config, store, files, store_src, files_src>>

\* lines 50-53 called by a caller of its own
CallLoadOrCreate(t, inst, path, key) ==
    /\ CanCall(t)
    /\ task' = [task EXCEPT ![t] =
          Finish([Frame("load_or_create_embeddings", inst) EXCEPT
                     !.path = path, !.key = key,
                     !.had_entry = IF UseStore(inst, key) THEN store[key].kind # "None"
                                   ELSE files[path].kind # "None"],
                 "return", load_or_create_embeddings(inst, path, key))]
    /\ UNCHANGED <<initialized, config, goodbye_embeddings, store, files, store_src, files_src>>

\* lines 81-85: is_goodbye up to its await on the provider
is_goodbye(t, inst, text) ==
    /\ CanCall(t)
    /\ LET f == [Frame("is_goodbye", inst) EXCEPT
                    !.text = text,
                    !.was_init = initialized[inst]]
       IN task' = [task EXCEPT ![t] =
            IF ~AssertInitialized(goodbye_embeddings[inst])
            THEN Finish(f, "AssertionError", NoneVal)
            ELSE IF FastPath(text)
            THEN Finish(f, "return", Bool(TRUE))
            ELSE [Log(f, Event("embed", "", <<>>, Normalize(text))) EXCEPT !.pc = "embed"]]
    /\ UNCHANGED <<initialized, config, goodbye_embeddings, store, files, store_src, files_src>>

\* lines 86-87: the embedding arrives; np.matmul with an operand that is
\* not an array (the coroutine object, None) and np.max of no scores raise
Classify(embedding, ge) ==
    IF ge.kind = "ndarray" /\ Len(ge.cols) > 0
    THEN <<"return", Bool(NpMax(MatMul(embedding, ge.cols)) > SIMILARITY_THRESHOLD)>>
    ELSE <<"ValueError", NoneVal>>

\* lines 85-87, a mutant: is_goodbye keeps the embedding of the text it
\* has classified as the reference matrix
IsGoodbyeEmbedOkKeepsEmbedding(t) ==
    /\ Quiet
    /\ task[t].pc = "embed"
    /\ LET f == task[t]
           text == f.trace[Len(f.trace)].text
           r == Classify(Embed(text), goodbye_embeddings[f.inst])
       IN /\ task' = [task EXCEPT ![t] =
                Finish(Log(f, Event("embed_ok", "", <<>>, text)), r[1], r[2])]
          /\ goodbye_embeddings' = [goodbye_embeddings EXCEPT ![f.inst] = NdArray(<<Embed(text)>>)]
    /\ UNCHANGED <<ncalls, initialized, config, store, files, store_src, files_src>>

\* lines 85-87, 100-102: the provider answers the call of is_goodbye
IsGoodbyeEmbedOk(t) ==
    /\ Quiet
    /\ task[t].pc = "embed"
    /\ LET f == task[t]
           text == f.trace[Len(f.trace)].text
           r == Classify(Embed(text), goodbye_embeddings[f.inst])
       IN task' = [task EXCEPT ![t] =
            Finish(Log(f, Event("embed_ok", "", <<>>, text)), r[1], r[2])]
    /\ UNCHANGED <<ncalls, initialized, config, goodbye_embeddings, store, files, store_src, files_src>>

\* lines 85, 100-102: the provider call of is_goodbye fails
IsGoodbyeEmbedFail(t) ==
    /\ Quiet
    /\ task[t].pc = "embed"
    /\ task' = [task EXCEPT ![t] =
          Finish(Log(task[t], Event("embed_fail", "", <<>>, <<>>)), "ProviderError", NoneVal)]
    /\ UNCHANGED <<ncalls, initialized, config, goodbye_embeddings, store, files, store_src, files_src>>


\* ------------------------------------------------------------- flows ----
\* lines 55-58: _from_redis up to its await on the store's get
from_redis(t, inst, key) ==
    /\ CanCall(t)
    /\ LET f == [Frame("_from_redis", inst) EXCEPT !.key = key, !.had_entry = store[key].kind # "None"]
       IN task' = [task EXCEPT ![t] =
            IF ~config_manager[inst]
            THEN Finish(f, "return", NoneVal)
            ELSE [Log(f, Event("get", key, <<>>, <<>>)) EXCEPT !.pc = "get"]]
    /\ UNCHANGED <<initialized, config, goodbye_embeddings, store, files, store_src, files_src>>

\* lines 58-61: get_goodbye_embeddings answers; `if goodbye_embeddings:`
GetReturn(t) ==
    /\ Quiet
    /\ task[t].pc = "get"
    /\ LET f == task[t]
           v == get_goodbye_embeddings(f.key)
           g == Log(f, Event(IF v.kind = "None" THEN "got_none" ELSE "got_value",
                             f.key, <<>>, <<>>))
       IN task' = [task EXCEPT ![t] =
            CASE Truth(v) = "True" ->
                    Finish([g EXCEPT !.origin = store_src[f.key]], "return", v)
              [] Truth(v) = "False" -> StartBuild(g)
              [] OTHER -> Finish(g, "ValueError", NoneVal)]
    /\ UNCHANGED <<ncalls, initialized, config, goodbye_embeddings, store, files, store_src, files_src>>

\* lines 65-69: _from_path up to its first await
from_path(t, inst, path) ==
    /\ CanCall(t)
    /\ LET f == Log([Frame("_from_path", inst) EXCEPT !.path = path, !.had_entry = files[path].kind # "None"],
                    Event("exists", "", path, <<>>))
       IN task' = [task EXCEPT ![t] =
            IF files[path].kind # "None"
            THEN Finish([Log(f, Event("load", "", path, <<>>)) EXCEPT !.origin = files_src[path]],
                        "return", files[path])
            ELSE StartBuild(f)]
    /\ UNCHANGED <<initialized, config, goodbye_embeddings, store, files, store_src, files_src>>

\* line 78: the provider answers the call for phrase i and the loop goes on;
\* after the last phrase create_embeddings returns to its flow
\* (lines 62, 70-71)
BuildEmbedOk(t) ==
    /\ Quiet
    /\ task[t].pc = "build"
    /\ LET f == task[t]
           phrases == goodbye_phrases[f.inst]
           g == [Log(f, Event("embed_ok", "", <<>>, phrases[f.i])) EXCEPT
                    !.embeddings = SetColumn(f.embeddings, f.i, Embed(phrases[f.i]))]
       IN IF HasNext(f.i, Len(phrases))
          THEN /\ task' = [task EXCEPT ![t] =
                    [Log(g, Event("embed", "", <<>>, phrases[f.i + 1])) EXCEPT !.i = f.i + 1]]
               /\ UNCHANGED <<files, files_src>>
          ELSE IF f.op = "_from_redis"
          THEN /\ task' = [task EXCEPT ![t] =
                    [Log(g, Event("put", f.key, <<>>, <<>>)) EXCEPT !.pc = "put"]]
               /\ UNCHANGED <<files, files_src>>
          ELSE /\ files' = [files EXCEPT ![NpSaveTarget(f.path)] = NdArray(g.embeddings)]
               /\ files_src' = [files_src EXCEPT ![NpSaveTarget(f.path)] = phrases]
               /\ task' = [task EXCEPT ![t] =
                    Finish([Log(g, Event("save", "", NpSaveTarget(f.path), <<>>)) EXCEPT
                               !.origin = phrases],
                           "return", NdArray(g.embeddings))]
    /\ UNCHANGED <<ncalls, initialized, config, goodbye_embeddings, store, store_src>>

\* a mutant of BuildEmbedFail: the build skips the phrase whose call failed
\* and goes on with the next phrase
BuildEmbedFailSkipsPhrase(t) ==
    /\ Quiet
    /\ task[t].pc = "build"
    /\ LET f == task[t]
           phrases == goodbye_phrases[f.inst]
           g == Log(f, Event("embed_fail", "", <<>>, <<>>))
       IN task' = [task EXCEPT ![t] =
            IF HasNext(f.i, Len(phrases))
            THEN [Log(g, Event("embed", "", <<>>, phrases[f.i + 1])) EXCEPT !.i = f.i + 1]
            ELSE Finish(g, "ProviderError", NoneVal)]
    /\ UNCHANGED <<ncalls, initialized, config, goodbye_embeddings, store, files, store_src, files_src>>

\* a mutant of BuildEmbedFail: the failed build leaves what it has so far
\* in the cache
BuildEmbedFailSavesPartial(t) ==
    /\ Quiet
    /\ task[t].pc = "build"
    /\ LET f == task[t] IN
       /\ task' = [task EXCEPT ![t] =
             Finish(Log(f, Event("embed_fail", "", <<>>, <<>>)), "ProviderError", NoneVal)]
       /\ IF f.op = "_from_redis"
          THEN /\ store' = [store EXCEPT ![f.key] = NdArray(f.embeddings)]
               /\ UNCHANGED files
          ELSE /\ files' = [files EXCEPT ![NpSaveTarget(f.path)] = NdArray(f.embeddings)]
               /\ UNCHANGED store
    /\ UNCHANGED <<ncalls, initialized, config, goodbye_embeddings, store_src, files_src>>

\* lines 78, 100-102: the provider call for phrase i fails; the error leaves
\* create_embeddings and the flow (lines 61, 69) without passing the write
BuildEmbedFail(t) ==
    /\ Quiet
    /\ task[t].pc = "build"
    /\ task' = [task EXCEPT ![t] =
          Finish(Log(task[t], Event("embed_fail", "", <<>>, <<>>)), "ProviderError", NoneVal)]
    /\ UNCHANGED <<ncalls, initialized, config, goodbye_embeddings, store, files, store_src, files_src>>

\* lines 62-63: save_goodbye_embeddings answers and _from_redis returns
PutReturn(t) ==
    /\ Quiet
    /\ task[t].pc = "put"
    /\ LET f == task[t] IN
       /\ store' = save_goodbye_embeddings(f.key, NdArray(f.embeddings))
       /\ store_src' = [store_src EXCEPT ![f.key] = goodbye_phrases[f.inst]]
       /\ task' = [task EXCEPT ![t] =
             Finish([f EXCEPT !.origin = goodbye_phrases[f.inst]], "return", NdArray(f.embeddings))]
    /\ UNCHANGED <<ncalls, initialized, config, goodbye_embeddings, files, files_src>>

\* lines 110-115: the program run as a script. main constructs a
\* GoodbyeModel, does not call initialize_embeddings, reads a line and calls
\* is_goodbye on it: the assert of line 82 fails on the goodbye_embeddings
\* the constructor left (line 41), the error leaves main and asyncio.run,
\* and nothing is printed
main(t, line) ==
    /\ CanCall(t)
    /\ LET model == NoneVal
           f == Log([Frame("main", IdleTask.inst) EXCEPT !.text = line],
                    Event("input", "", <<>>, line))
       IN /\ ~AssertInitialized(model)
          /\ task' = [task EXCEPT ![t] = Finish(f, "AssertionError", NoneVal)]
    /\ UNCHANGED <<initialized, config, goodbye_embeddings, store, files, store_src, files_src>>

\* the caller takes the result (or the error) of its call; this happens
\* before anything else goes on
Return(t) ==
    /\ task[t].pc = "done"
    /\ task' = [task EXCEPT ![t] = IdleTask]
    /\ UNCHANGED <<ncalls, initialized, config, goodbye_embeddings, store, files, store_src, files_src>>

\* ------------------------------------------------------ specification ---
\* the keys the callers pass to _from_redis (line 55): the configuration of
\* A is kept under the key "default", that of B under either key
ResolveKeys(inst) == IF inst = "A" THEN {"default"} ELSE Keys \ {""}

Next ==
    \E t \in Tasks :
        \/ Return(t)
        \/ \E inst \in Insts : initialize_embeddings(t, inst)
        \/ \E inst \in Insts, key \in {"default", ""} :
              CallLoadOrCreate(t, inst, InitPath, key)
        \/ \E inst \in Insts, text \in Texts : is_goodbye(t, inst, text)
        \/ \E line \in Texts : main(t, line)
        \/ IsGoodbyeEmbedOk(t)
        \/ IsGoodbyeEmbedFail(t)
        \/ \E inst \in Insts : \E key \in ResolveKeys(inst) : from_redis(t, inst, key)
        \/ GetReturn(t)
        \/ \E inst \in Insts, path \in CallPaths : from_path(t, inst, path)
        \/ BuildEmbedOk(t)
        \/ BuildEmbedFail(t)
        \/ PutReturn(t)

Spec == Init /\ [][Next]_vars


\* ------------------------------------------------------------ claims ----
\* a call of op that has ended
Ended(t, op) == task[t].op = op /\ task[t].pc = "done"

HasBye(text) == Contains(Lower(text), <<"b", "y", "e">>)

\* the matrix a complete build from a phrase list yields
Resolved(phrases) == NdArray([i \in 1..Len(phrases) |-> Embed(phrases[i])])

\* C1: is_goodbye on an instance whose initialize_embeddings has never
\* completed ends with the assertion error for every text, also one with
\* "bye" in it, and has made no provider call and no cache access.
C1_UninitializedFails ==
    \A t \in Tasks :
        (task[t].op = "is_goodbye" /\ ~task[t].was_init) =>
            /\ task[t].pc = "done"
            /\ task[t].outcome = "AssertionError"
            /\ task[t].trace = <<>>

C1_Witness ==
    \E t \in Tasks :
        /\ Ended(t, "is_goodbye")
        /\ ~task[t].was_init
        /\ HasBye(task[t].text)
        /\ task[t].outcome = "AssertionError"

\* C2: after initialize_embeddings has completed, goodbye_embeddings holds
\* the resolved matrix (one column per phrase of the instance), and every
\* later is_goodbye whose provider call does not fail returns a boolean.
C2_InitializeStoresMatrix ==
    /\ \A n \in Insts :
          initialized[n] =>
             /\ goodbye_embeddings[n].kind = "ndarray"
             /\ Len(goodbye_embeddings[n].cols) = Len(goodbye_phrases[n])
    /\ \A t \in Tasks :
          (Ended(t, "is_goodbye") /\ task[t].was_init /\ task[t].outcome # "ProviderError") =>
             /\ task[t].outcome = "return"
             /\ task[t].result.kind = "bool"

\* C3: on an initialized instance is_goodbye returns True without a provider
\* call when the lowercased text contains "bye"; for every other text it
\* makes exactly one provider call, on the trimmed and lowercased text.
C3_FastPathAndOneCall ==
    \A t \in Tasks :
        (task[t].op = "is_goodbye" /\ task[t].was_init) =>
            IF HasBye(task[t].text)
            THEN /\ task[t].pc = "done"
                 /\ task[t].outcome = "return"
                 /\ task[t].result = Bool(TRUE)
                 /\ Calls(task[t]) = <<>>
            ELSE /\ Len(Calls(task[t])) = 1
                 /\ Calls(task[t])[1].text = Lower(Strip(task[t].text))

C3_Witness ==
    \E t, u \in Tasks :
        /\ Ended(t, "is_goodbye") /\ task[t].was_init
        /\ HasBye(task[t].text) /\ ~Contains(task[t].text, <<"b", "y", "e">>)
        /\ task[t].result = Bool(TRUE)
        /\ task[u].op = "is_goodbye" /\ task[u].pc = "embed" /\ task[u].was_init
        /\ ~HasBye(task[u].text)
        /\ Strip(task[u].text) # task[u].text
        /\ Lower(task[u].text) # task[u].text

\* the largest dot product of the text's embedding with a reference column
MaxSimilarity(n, text) ==
    NpMax(MatMul(Embed(Lower(Strip(text))), Resolved(goodbye_phrases[n]).cols))

\* C4: on an initialized instance, for a text without "bye" whose provider
\* call does not fail, is_goodbye returns True exactly when the largest dot
\* product with a reference column is strictly greater than 0.9.
C4_ThresholdDecides ==
    \A t \in Tasks :
        (/\ Ended(t, "is_goodbye") /\ task[t].was_init
         /\ ~HasBye(task[t].text) /\ task[t].outcome # "ProviderError") =>
            /\ task[t].outcome = "return"
            /\ task[t].result = Bool(MaxSimilarity(task[t].inst, task[t].text) > 9000)


\* the calls that resolve the reference matrix
ResolveOps == {"load_or_create_embeddings", "_from_redis", "_from_path"}

\* the call of frame f goes to the store
ToStore(f) ==
    IF f.op = "_from_redis" THEN TRUE
    ELSE IF f.op = "_from_path" THEN FALSE
    ELSE UseStore(f.inst, f.key)

\* the cache entry a resolving call is about, and the phrase list it was
\* built from
EntryOf(f) == IF ToStore(f) THEN store[f.key] ELSE files[f.path]
SrcOf(f) == IF ToStore(f) THEN store_src[f.key] ELSE files_src[f.path]

\* a resolving call on an instance that has the backend it goes to
Resolving(t) ==
    /\ task[t].op \in ResolveOps
    /\ task[t].op = "_from_redis" => config_manager[task[t].inst]

HasEvent(f, evs) == \E j \in 1..Len(f.trace) : f.trace[j].ev \in evs

\* C5: round trip on both backends: once a miss has built and persisted a
\* matrix under a key or path, a later resolve of the same phrase list on
\* that key or path returns that matrix and makes no provider call.
C5_RoundTrip ==
    \A t \in Tasks :
        (/\ Resolving(t) /\ task[t].pc = "done" /\ task[t].had_entry
         /\ SrcOf(task[t]) = goodbye_phrases[task[t].inst]) =>
            /\ task[t].outcome = "return"
            /\ task[t].result = EntryOf(task[t])
            /\ Calls(task[t]) = <<>>

\* C6: every matrix a resolve returns, after a fresh build and after a
\* cache hit, has as column i the provider's embedding of phrase i of the
\* phrase list it was built from; so has every matrix in the cache.
C6_ColumnOrder ==
    /\ \A t \in Tasks :
          (Resolving(t) /\ task[t].pc = "done" /\ task[t].result.kind = "ndarray") =>
             /\ task[t].origin # <<>>
             /\ task[t].result = Resolved(task[t].origin)
    /\ \A k \in Keys : store[k].kind = "ndarray" => store[k] = Resolved(store_src[k])
    /\ \A q \in Paths : files[q].kind = "ndarray" => files[q] = Resolved(files_src[q])

C6_Witness ==
    \E t \in Tasks :
        /\ Ended(t, "_from_path") /\ HasEvent(task[t], {"load"})
        /\ task[t].result.kind = "ndarray"
        /\ Len(task[t].result.cols) >= 2
        /\ task[t].origin = goodbye_phrases[task[t].inst]

\* C7: when an embedding call fails during a build, the build ends with
\* that error and nothing is written: the store and the files are as they
\* were, and the failed call has made no put and no save.
C7_FailedBuildWritesNothing ==
    [][\A t \in Tasks :
          (task[t].pc = "build" /\ task'[t].pc = "done"
             /\ task'[t].outcome = "ProviderError") =>
                /\ store' = store
                /\ files' = files
                /\ ~HasEvent(task'[t], {"put", "save"})]_vars

C7_Witness ==
    \E t \in Tasks :
        /\ task[t].op \in {"_from_redis", "_from_path"} /\ task[t].pc = "done"
        /\ task[t].outcome = "ProviderError"
        /\ task[t].i >= 2
        /\ \A k \in Keys : store[k].kind = "None"
        /\ \A q \in Paths : files[q].kind = "None"

\* C8: every resolve call exercises exactly one backend flow: the store
\* flow when a store handle is configured and a key is given, else the file
\* flow, and it does not touch the other backend.
C8_ExactlyOneFlow ==
    \A t \in Tasks :
        Ended(t, "load_or_create_embeddings") =>
            LET st == HasEvent(task[t], {"get", "got_none", "got_value", "put"})
                fl == HasEvent(task[t], {"exists", "load", "save"})
            IN IF UseStore(task[t].inst, task[t].key) THEN st /\ ~fl ELSE fl /\ ~st

\* the events of a complete build from a phrase list, in order
BuildTrace(phrases) ==
    [j \in 1..(2 * Len(phrases)) |->
        IF j % 2 = 1 THEN Event("embed", "", <<>>, phrases[(j + 1) \div 2])
        ELSE Event("embed_ok", "", <<>>, phrases[j \div 2])]

\* the events of a store flow that misses, up to its put
MissTrace(key, phrases) ==
    <<Event("get", key, <<>>, <<>>), Event("got_none", key, <<>>, <<>>)>>
        \o BuildTrace(phrases) \o <<Event("put", key, <<>>, <<>>)>>

\* C9: a store flow whose get finds no entry builds the complete matrix,
\* then puts it under the same key, then returns it: the put is issued only
\* after the embedding of the last phrase has completed, and the matrix
\* returned is the matrix that was put.
C9_MissBuildsThenPuts ==
    /\ [](\A t \in Tasks :
            (task[t].op = "_from_redis" /\ task[t].pc \in {"put", "done"}
               /\ HasEvent(task[t], {"got_none"}) /\ task[t].outcome = "return") =>
                  /\ task[t].trace = MissTrace(task[t].key, goodbye_phrases[task[t].inst])
                  /\ NdArray(task[t].embeddings) = Resolved(goodbye_phrases[task[t].inst])
                  /\ task[t].pc = "done" => task[t].result = NdArray(task[t].embeddings))
    /\ [][\A t \in Tasks :
            (task[t].pc = "put" /\ task'[t].pc = "done") =>
                /\ store'[task[t].key] = task'[t].result
                /\ \A k \in Keys \ {task[t].key} : store'[k] = store[k]]_vars

C9_Witness ==
    \E t \in Tasks :
        /\ Ended(t, "_from_redis") /\ task[t].outcome = "return"
        /\ HasEvent(task[t], {"got_none"})
        /\ Len(goodbye_phrases[task[t].inst]) >= 2
        /\ store[task[t].key] = task[t].result
        /\ task[t].result.kind = "ndarray"

\* C10: an entry is never invalidated or refreshed: a resolve on a key or
\* path that has an entry returns the stored matrix as it is, with no
\* provider call and no write, whatever the caller's phrase list is.
C10_NeverRefreshed ==
    \A t \in Tasks :
        (Resolving(t) /\ task[t].pc = "done" /\ task[t].had_entry) =>
            /\ task[t].outcome = "return"
            /\ task[t].result = EntryOf(task[t])
            /\ ~HasEvent(task[t], {"embed", "put", "save"})

\* the provider events of a call, in order
ProviderEvents(f) == SelectSeq(f.trace, LAMBDA e : e.ev \in {"embed", "embed_ok", "embed_fail"})

\* the provider calls of a call that have not been answered yet
InFlight(f) ==
    Len(Calls(f)) - Len(SelectSeq(f.trace, LAMBDA e : e.ev \in {"embed_ok", "embed_fail"}))

\* C11: a build embeds the phrases one after the other: at most one
\* provider call of the build is in flight, the call for phrase i+1 is
\* issued only after the call for phrase i has been answered, the calls
\* follow the order of the phrase list, and a build that succeeds has made
\* exactly one call per phrase.
C11_SequentialBuild ==
    \A t \in Tasks :
        task[t].op \in {"_from_redis", "_from_path"} =>
            LET f == task[t]
                phrases == goodbye_phrases[f.inst]
                es == ProviderEvents(f)
            IN /\ InFlight(f) \in {0, 1}
               /\ f.pc = "build" <=> InFlight(f) = 1
               /\ Len(es) <= 2 * Len(phrases)
               /\ \A j \in 1..Len(es) :
                     IF j % 2 = 1
                     THEN es[j] = Event("embed", "", <<>>, phrases[(j + 1) \div 2])
                     ELSE \/ es[j] = Event("embed_ok", "", <<>>, phrases[j \div 2])
                          \/ es[j].ev = "embed_fail" /\ j = Len(es)
               /\ (f.pc \in {"put", "done"} /\ f.outcome = "return" /\ es # <<>>) =>
                     /\ Len(Calls(f)) = Len(phrases)
                     /\ \A i \in 1..Len(phrases) : Calls(f)[i].text = phrases[i]

C11_Witness ==
    \E t \in Tasks :
        /\ Ended(t, "_from_path") /\ task[t].outcome = "return"
        /\ HasEvent(task[t], {"save"})
        /\ Len(goodbye_phrases[task[t].inst]) >= 2
        /\ Len(Calls(task[t])) = Len(goodbye_phrases[task[t].inst])
        /\ InFlight(task[t]) = 0

\* C12: two instances with the same phrase list that initialize against
\* the same store key, which held no entry of another phrase list, may both
\* build and both write; afterwards the entry under the key and the
\* goodbye_embeddings of both instances are the complete matrix one build
\* of the phrase list yields.
C12_RacingInitializations ==
    \A n, m \in Insts :
        (/\ n # m /\ initialized[n] /\ initialized[m]
         /\ goodbye_phrases[n] = goodbye_phrases[m]
         /\ UseStore(n, "default") /\ UseStore(m, "default")
         /\ store_src["default"] \in {<<>>, goodbye_phrases[n]}) =>
            /\ store["default"] = Resolved(goodbye_phrases[n])
            /\ goodbye_embeddings[n] = Resolved(goodbye_phrases[n])
            /\ goodbye_embeddings[m] = Resolved(goodbye_phrases[m])

\* what is_goodbye gives for the text of frame f when it runs alone on the
\* instance as it is now, given the answer the provider gave
Alone(f) ==
    LET ge == goodbye_embeddings[f.inst] IN
    IF ge.kind = "None" THEN <<"AssertionError", NoneVal>>
    ELSE IF HasBye(f.text) THEN <<"return", Bool(TRUE)>>
    ELSE IF HasEvent(f, {"embed_fail"}) THEN <<"ProviderError", NoneVal>>
    ELSE IF ge.kind = "ndarray"
    THEN <<"return", Bool(NpMax(MatMul(Embed(Lower(Strip(f.text))), ge.cols)) > 9000)>>
    ELSE <<"ValueError", NoneVal>>

\* C13: is_goodbye is read-only: no step of an is_goodbye call, on the
\* fast path or the slow path, ending well or with an error, changes
\* goodbye_embeddings, the store or the files, and the call makes no cache
\* access; so a call that overlaps other is_goodbye calls ends as it does
\* when it runs alone.
C13_ClassifyReadOnly ==
    /\ [](\A t \in Tasks :
            task[t].op = "is_goodbye" =>
               /\ ~HasEvent(task[t], {"get", "got_none", "got_value", "put", "exists", "load", "save"})
               /\ task[t].pc = "done" =>
                     <<task[t].outcome, task[t].result>> = Alone(task[t]))
    /\ [][\A t \in Tasks :
            (task'[t].op = "is_goodbye" /\ task'[t] # task[t]) =>
                /\ goodbye_embeddings' = goodbye_embeddings
                /\ store' = store
                /\ files' = files]_vars

C13_Witness ==
    \E t, u \in Tasks :
        /\ t # u
        /\ Ended(t, "is_goodbye") /\ task[t].was_init
        /\ HasEvent(task[t], {"embed_ok"})
        /\ task[u].op = "is_goodbye" /\ task[u].pc = "embed" /\ task[u].was_init
        /\ task[u].inst = task[t].inst

\* C14: initialize_embeddings is not memoized: every call looks the entry
\* up in its backend (a get on the store or an exists on the path), also
\* on an instance that is already initialized; such a repeated call makes
\* no provider call and leaves goodbye_embeddings equal to what it was.
C14_InitializeNotMemoized ==
    [][\A t \in Tasks :
          (task[t].pc = "idle" /\ task'[t].op = "initialize_embeddings"
             /\ task'[t].pc = "done") =>
                /\ HasEvent(task'[t], {"get", "exists"})
                /\ initialized[task'[t].inst] =>
                      /\ Calls(task'[t]) = <<>>
                      /\ goodbye_embeddings'[task'[t].inst] = goodbye_embeddings[task'[t].inst]]_vars

C16_KeysIsolated ==
    /\ [](\A t \in Tasks :
            (/\ Resolving(t) /\ ToStore(task[t]) /\ task[t].pc = "done"
             /\ task[t].outcome # "ProviderError"
             /\ SrcOf(task[t]) \in {<<>>, goodbye_phrases[task[t].inst]}) =>
                /\ task[t].outcome = "return"
                /\ task[t].result = Resolved(goodbye_phrases[task[t].inst]))
    /\ [][\A k \in Keys :
            store'[k] # store[k] =>
                \E t \in Tasks : task[t].pc = "put" /\ task[t].key = k /\ task'[t].pc = "done"]_vars

\* C17: the program run as a script prints, for every line it reads from
\* standard input, the boolean is_goodbye returns for that line: every
\* line read is followed by the print of a boolean, and the run does not
\* end with an error before it.
C17_MainPrintsEachLine ==
    \A t \in Tasks :
        (task[t].op = "main" /\ task[t].pc = "done") =>
            /\ task[t].outcome = "return"
            /\ \A j \in 1..Len(task[t].trace) :
                  task[t].trace[j].ev = "input" =>
                     /\ j < Len(task[t].trace)
                     /\ task[t].trace[j + 1].ev = "print"

C20_MatrixMonotone ==
    /\ [](\A n \in Insts :
            IF initialized[n] THEN goodbye_embeddings[n].kind # "None"
            ELSE goodbye_embeddings[n] = NoneVal)
    /\ [][\A n \in Insts :
            goodbye_embeddings[n].kind # "None" => goodbye_embeddings'[n].kind # "None"]_vars

C20_Witness ==
    \E t, u \in Tasks :
        /\ Ended(t, "initialize_embeddings") /\ task[t].was_init
        /\ goodbye_embeddings[task[t].inst].kind # "None"
        /\ task[u].op = "is_goodbye" /\ task[u].pc = "embed"
        /\ task[u].inst = task[t].inst

====
